---- MODULE Spec2Model ----
(***************************************************************************)
(* Model of the RAG service of app/: the ingestion pipeline                *)
(* (ocr_service.get_text_from_pdf, rag_pipeline._extract_metadata_from_text*)
(* and rag_pipeline.index_pdf, driven by main.upload_pdf) and the stateful *)
(* chat endpoint (main.chat_endpoint with the process-wide chat_histories).*)
(*                                                                         *)
(* The external collaborators (rasterizer, OCR endpoint, LLM, vector       *)
(* store, chat engine) are nondeterministic: every step that calls one     *)
(* draws its outcome from a small set.                                     *)
(***************************************************************************)
EXTENDS Integers, Sequences, FiniteSets, TLC

\* ---------------------------------------------------------------- bounds
MaxPages == 3      \* largest page count the rasterizer yields
MaxUploads == 1    \* uploads handled in one behaviour
MaxChats == 4      \* chat requests handled in one behaviour
MaxQueries == 1    \* query requests handled in one behaviour
MaxHits == 4       \* most units the store has for one question

\* ------------------------------------------------------------ input sets
None == "None"                      \* Python None where a string is expected
NoneMeta == [is_none |-> TRUE]      \* Python None where a mapping is expected
Texts == {"tA", "tLong"}            \* page texts; tLong has over 4000 characters
ListContent == "<content parts>"    \* a content field that is a JSON list
FileNames == {"report.pdf"}
ContentTypes == {"application/pdf", "text/plain"}
SessionIds == {"A", "B"}
Questions == {"q1", "q2"}
Answers == {"a1"}

\* What the OCR endpoint can do with one page (requests.post and the body).
\* "ok" is a 2xx JSON body with choices[0].message.content present, whatever
\* the content is: a string, null or a list of content parts.
OcrOutcomes ==
    {[kind |-> k, content |-> ""] :
        k \in {"transport_error", "http_error", "not_json", "bad_envelope"}}
    \cup {[kind |-> "ok", content |-> c] :
            c \in Texts \cup {"", None, ListContent}}

\* ------------------------------------------------- ocr_service.py: adapter
\* _call_typhoon_api: every RequestException (transport error, timeout,
\* raise_for_status, the JSONDecodeError of response.json) and every
\* KeyError/IndexError/TypeError of the envelope access returns "";
\* otherwise the content field is returned as it is, string or not.
_call_typhoon_api(outcome) ==
    IF outcome.kind = "ok" THEN outcome.content ELSE ""

\* Python truthiness of the adapter's result (`if text:`).
Truthy(text) == text # "" /\ text # None

\* What the adapter handed back, as the log of calls records it.
OcrResultClass(text) ==
    CASE text = "" -> "empty"
      [] text = None -> "none"
      [] text = ListContent -> "non_string"
      [] OTHER -> "text"

\* isinstance(text, str): what Document(text=...) accepts.
IsStr(text) == text \in Texts \cup {""}

\* text[:4000] (line 96): the first 4000 characters.
Truncate(text) == IF text = "tLong" THEN "tLong[:4000]" ELSE text

\* Variant: the loop index i instead of i + 1.
PageRecord_zero_based(page_num, text) ==
    [page_number |-> page_num - 1, text |-> text]

PageRecord(page_num, text) == [page_number |-> page_num, text |-> text]

\* ---------------------------------- rag_pipeline.py: metadata extraction
DefaultMetadata ==
    [doc_type |-> "Unknown", category |-> "Unknown",
     status |-> "Unknown", title |-> "N/A"]

\* Raw LLM outputs are sequences of characters; a JSON value is one token.
BT == "bq"   \* the backquote character
NL == "\n"
Whitespace == {NL, " "}
FenceJsonChars == {BT, "j", "s", "o", "n"}
FenceChars == {BT}
DictTokens == {"DICT_FULL", "DICT_SHADOW"}
JsonTokens == DictTokens \cup {"LIST", "NUMBER"}

\* The value json.loads gives for a single JSON token.
JsonValue(tok) ==
    CASE tok = "DICT_FULL" ->
            [doc_type |-> "Report", category |-> "HR",
             status |-> "Draft", title |-> "T1"]
      [] tok = "DICT_SHADOW" ->
            [doc_type |-> "Memo", title |-> "T2",
             file_name |-> "llm.pdf", page_number |-> 99]

RawOutputs ==
    { <<"DICT_FULL">>,
      <<"DICT_SHADOW">>,
      <<BT, BT, BT, "j", "s", "o", "n", NL, "DICT_FULL", NL, BT, BT, BT>>,
      <<BT, BT, BT, NL, "DICT_SHADOW", NL, BT, BT, BT>>,
      <<" ", "DICT_FULL", NL>>,
      <<"LIST">>,
      <<"NUMBER">>,
      <<"prose", " ", "DICT_FULL">>,
      <<"DICT_FULL", "DICT_FULL">>,
      <<>> }

\* What Settings.llm.complete can do: raise, or return a raw output.
LlmOutcomes ==
    {[raises |-> TRUE, raw |-> <<>>]}
    \cup {[raises |-> FALSE, raw |-> r] : r \in RawOutputs}

RECURSIVE LStrip(_, _)
LStrip(s, chars) ==
    IF s # <<>> /\ Head(s) \in chars THEN LStrip(Tail(s), chars) ELSE s

RECURSIVE RStrip(_, _)
RStrip(s, chars) ==
    IF s # <<>> /\ s[Len(s)] \in chars
    THEN RStrip(SubSeq(s, 1, Len(s) - 1), chars) ELSE s

\* str.strip(chars): drop leading and trailing characters of the set.
Strip(s, chars) == RStrip(LStrip(s, chars), chars)

\* raw_output.strip().strip(fence + "json").strip(fence), fence = 3 backquotes
StripFences(raw) == Strip(Strip(Strip(raw, Whitespace), FenceJsonChars), FenceChars)

\* json.loads: surrounding whitespace is allowed around exactly one value.
JsonParses(s) ==
    LET body == Strip(s, Whitespace)
    IN  Len(body) = 1 /\ body[1] \in JsonTokens

\* isinstance(extracted_data, dict)
IsDict(s) == Strip(s, Whitespace)[1] \in DictTokens

JsonLoads(s) == JsonValue(Strip(s, Whitespace)[1])

Returned(v) == [raised |-> FALSE, value |-> v]
Raised == [raised |-> TRUE, value |-> NoneMeta]

\* _extract_metadata_from_text.  raw_output is first assigned after
\* Settings.llm.complete returns (line 104), and the except block reads it
\* (line 122): when the LLM call raises, the handler itself raises
\* UnboundLocalError, which leaves the function.  A parse error, and the
\* TypeError of the one-argument json.JSONDecodeError for a non-dict value,
\* are caught with raw_output bound and give the default record.
_extract_metadata_from_text(text, llm) ==
    IF llm.raises THEN Raised
    ELSE LET json_str == StripFences(llm.raw)
         IN  IF JsonParses(json_str) /\ IsDict(json_str)
             THEN Returned(JsonLoads(json_str))
             ELSE Returned(DefaultMetadata)

\* ------------------------------------------- rag_pipeline.py: index_pdf
\* Variant: no copy, the same object is used again.
DictCopy_alias(h, ref) == [heap |-> h, ref |-> ref]

\* dict.copy(): a new object with the same items.
DictCopy(h, ref) == [heap |-> Append(h, h[ref]), ref |-> Len(h) + 1]

\* dict.update(other): the items of other replace or extend those of d.
DictUpdate(d, other) ==
    [k \in DOMAIN d \cup DOMAIN other |->
        IF k \in DOMAIN other THEN other[k] ELSE d[k]]

PageFields(fname, page_num) == [file_name |-> fname, page_number |-> page_num]

\* Variant: the per-page fields first, the extracted metadata applied last.
MergeMetadata_shadowed(h, extracted, fname, page_num) ==
    [heap |-> Append(h, DictUpdate(PageFields(fname, page_num), h[extracted])),
     ref |-> Len(h) + 1]

\* Lines 172-178: copy the extracted metadata, then update the copy with the
\* per-page fields.  The result is the heap and the reference of the copy.
MergeMetadata(h, extracted, fname, page_num) ==
    LET c == DictCopy(h, extracted)
    IN  [heap |-> [c.heap EXCEPT ![c.ref] = DictUpdate(@, PageFields(fname, page_num))],
         ref |-> c.ref]

\* The unit the vector store receives for a Document: its text and the
\* items of its metadata mapping.
Unit(h, doc) == [text |-> doc.text, metadata |-> h[doc.metadata]]

Units(h, docs) == [k \in 1..Len(docs) |-> Unit(h, docs[k])]

IdentityKeys == {"file_name", "page_number"}

\* The document-level part of a metadata mapping.
DocLevel(d) == [k \in (DOMAIN d) \ IdentityKeys |-> d[k]]

\* What get_vector_store / VectorStoreIndex.from_documents can do.
StoreOutcomes == {"ok", "connect_error", "write_error"}

NoResult == [kind |-> "none", success |-> FALSE, metadata |-> NoneMeta]
ReturnResult(ok, md) == [kind |-> "return", success |-> ok, metadata |-> md]
RaiseResult == [kind |-> "raise", success |-> FALSE, metadata |-> NoneMeta]

\* One entry of the log of external calls: the collaborator, the page it
\* was called for (0: none) and what came back.
ExternalCall(name, page, result) ==
    [call |-> name, page |-> page, result |-> result, input |-> ""]

\* The entry of the LLM call: the text put into the prompt, and the outcome.
LlmCall(input, result) ==
    [call |-> "llm", page |-> 0, result |-> result, input |-> input]

\* How the extractor sees an LLM outcome.
LlmClass(llm) ==
    IF llm.raises THEN "raises"
    ELSE IF ~JsonParses(StripFences(llm.raw)) THEN "not_json"
    ELSE IF ~IsDict(StripFences(llm.raw)) THEN "not_dict"
    ELSE "dict"

\* Variant: success reported whatever the write did.
WriteResult_always_true(outcome, md) == ReturnResult(TRUE, md)

\* index_pdf lines 188-203: (True, metadata) after the write, (False, None)
\* from the except block.
WriteResult(outcome, md) ==
    IF outcome = "ok" THEN ReturnResult(TRUE, md)
    ELSE ReturnResult(FALSE, NoneMeta)

\* -------------------------------------- ocr_service.py: get_text_from_pdf
\* Variant: the pages that succeeded are returned whatever their number.
CompletenessCheck_partial(pages, n) == pages

\* Lines 107-113: the completeness check on the collected pages.
CompletenessCheck(pages, n) == IF Len(pages) # n THEN <<>> ELSE pages

\* Variant: the loop is left at the first page without text.
OcrLoopEnds_break_on_failure(page_num, n, text) ==
    page_num = n \/ ~Truthy(text)

\* Line 85: the loop over enumerate(images) ends after the last image only.
OcrLoopEnds(page_num, n, text) == page_num = n

\* ------------------------------------------- rag_pipeline.py: index_pdf
\* Variant: the OCR result is never taken as empty.
NoPages_never(list) == FALSE

\* Line 147: `if not page_data_list`.
NoPages(list) == list = <<>>

\* Variant: the text of the last page record.
FirstPageText_last(list) == list[Len(list)].text

\* Line 153: page_data_list[0].get('text', '').
FirstPageText(list) == list[1].text

\* ------------------------------------------------- main.py: upload_pdf
\* Variant: every content type is let through.
ContentTypeAccepted_any(content_type) == TRUE

\* Line 82: only application/pdf is processed.
ContentTypeAccepted(content_type) == content_type = "application/pdf"

\* ------------------------------------------------------ main.py: chat
Message(role, content) == [role |-> role, content |-> content]

\* The two messages CondenseQuestionChatEngine.chat puts into the memory.
Turn(question, answer) ==
    <<Message("user", question), Message("assistant", answer)>>

\* Variant: one history shared by every session.
Lookup_shared(histories, sid) ==
    IF DOMAIN histories # {}
    THEN histories[CHOOSE x \in DOMAIN histories : TRUE] ELSE <<>>

\* Variant: every request starts from an empty history.
Lookup_empty(histories, sid) == <<>>

\* chat_histories.get(session_id, [])
Lookup(histories, sid) ==
    IF sid \in DOMAIN histories THEN histories[sid] ELSE <<>>

\* Variant: the store is replaced by the one entry written.
StoreHistory_replace(histories, sid, value) == [x \in {sid} |-> value]

\* chat_histories[session_id] = value
StoreHistory(histories, sid, value) ==
    [x \in DOMAIN histories \cup {sid} |->
        IF x = sid THEN value ELSE histories[x]]

\* Variant: only the new turn is kept.
MemoryAfterTurn_only_turn(session_history, question, answer) ==
    Turn(question, answer)

\* memory.get_all() after a chat that started from session_history.
MemoryAfterTurn(session_history, question, answer) ==
    session_history \o Turn(question, answer)

\* Where a chat request can raise inside the try block of chat_endpoint.
ChatFailures == {"none", "memory", "engine", "condense", "query", "response"}

\* A response of the chat endpoint as the model records it: the session,
\* the HTTP status, whether line 157 read the store, the history read, and
\* the collaborators the handler called.
ChatResponse(sid, status, read, context, external) ==
    [sid |-> sid, status |-> status, read |-> read, context |-> context,
     external |-> external]

NoChat == ChatResponse("", 0, FALSE, <<>>, {})

\* The collaborators a chat request has called when it raises at fail.
ChatExternal(fail) ==
    CASE fail \in {"memory", "engine"} -> {}
      [] fail = "condense" -> {"llm"}
      [] OTHER -> {"llm", "query_engine"}

\* Variant: the engine is taken to be there always.
EngineAvailable_always(engine) == TRUE

\* Lines 117 and 150: `if query_engine is None` raises the 503.
EngineAvailable(engine) == engine # None

\* -------------------------------------------- rag_pipeline.py: query engine
TopK == 10   \* similarity_top_k of the retriever
TopN == 3    \* top_n of the reranker
Scores == {1, 2, 3}   \* relevance scores the cross-encoder gives

Min(a, b) == IF a < b THEN a ELSE b

\* The retriever: the first similarity_top_k hits of the store.
Retrieve(hits) == SubSeq(hits, 1, Min(Len(hits), TopK))

\* Insert a node into a list sorted by descending score, after the nodes
\* of the same score.
RECURSIVE InsertDesc(_, _)
InsertDesc(sorted, node) ==
    IF sorted = <<>> THEN <<node>>
    ELSE IF Head(sorted).score >= node.score
         THEN <<Head(sorted)>> \o InsertDesc(Tail(sorted), node)
         ELSE <<node>> \o sorted

\* sorted(nodes, key=-score): a stable sort by descending score.
RECURSIVE SortDesc(_)
SortDesc(nodes) ==
    IF nodes = <<>> THEN <<>>
    ELSE InsertDesc(SortDesc(SubSeq(nodes, 1, Len(nodes) - 1)),
                    nodes[Len(nodes)])

\* SentenceTransformerRerank(top_n=3): the top_n best by score.
Rerank(nodes) == SubSeq(SortDesc(nodes), 1, Min(Len(nodes), TopN))

\* Variant: the engine is built without the reranker.
node_postprocessors_none(nodes) == nodes

\* RetrieverQueryEngine(node_postprocessors=[reranker])
node_postprocessors(nodes) == Rerank(nodes)

\* Lines 126-132 of main.py: one SourceNode per node of the response, in
\* the order of the response.
SourceNodes(nodes) ==
    [k \in 1..Len(nodes) |-> [id |-> nodes[k].id, score |-> nodes[k].score]]

\* The hits of the store for a question: n units in retrieval order, each
\* with the score the reranker will give it.
HitLists ==
    UNION {[1..n -> Scores] : n \in 0..MaxHits}

Nodes(hit_scores) ==
    [k \in 1..Len(hit_scores) |-> [id |-> k, score |-> hit_scores[k]]]

\* Where a query request can raise inside the try block of query_endpoint.
QueryFailures == {"none", "query", "response"}

QueryResponse(status, source_nodes, external) ==
    [status |-> status, source_nodes |-> source_nodes, external |-> external]

NoQuery == QueryResponse(0, <<>>, {})

\* ---------------------------------------------------------------- state
VARIABLES
    lifespan,            \* "startup", "serving", "shutdown"
    query_engine,        \* main.query_engine: "None" or "engine"
    chat_histories,      \* main.chat_histories: session id -> messages
    chat_resp,           \* the last chat request: session, status, history read
    turn_log,            \* turns written to chat_histories since startup
    nchat,               \* chat requests handled
    query_resp,          \* the last query request: status and source nodes
    nquery,              \* query requests handled
    pc,                  \* position of the upload being handled
    uploads,             \* upload requests handled
    upload_status,       \* HTTP status of the last upload (0: none)
    content_type,        \* upload_pdf: file.content_type of the request
    file_name,           \* index_pdf argument
    n_images,            \* len(images) of get_text_from_pdf
    pages_data,          \* get_text_from_pdf local
    page_data_list,      \* index_pdf local: result of get_text_from_pdf
    heap,                \* the dict objects of the running index_pdf call
    extracted_metadata,  \* index_pdf local: reference into heap (0: unset)
    documents,           \* index_pdf local: Documents built so far
    index_result,        \* what index_pdf returned or raised
    calls,               \* external calls made by the running upload
    store                \* the vector store's collection

query_vars == <<query_resp, nquery>>
chat_vars == <<lifespan, query_engine, chat_histories, chat_resp, turn_log,
               nchat, query_vars>>
index_vars == <<content_type, file_name, n_images, pages_data, page_data_list, heap,
                extracted_metadata, documents, index_result, calls>>
vars == <<chat_vars, pc, uploads, upload_status, index_vars, store>>

Init ==
    /\ lifespan = "startup"
    /\ query_engine = None
    /\ chat_histories = [x \in {} |-> <<>>]
    /\ chat_resp = NoChat
    /\ turn_log = <<>>
    /\ nchat = 0
    /\ query_resp = NoQuery
    /\ nquery = 0
    /\ pc = "idle"
    /\ uploads = 0
    /\ upload_status = 0
    /\ content_type = ""
    /\ file_name = ""
    /\ n_images = 0
    /\ pages_data = <<>>
    /\ page_data_list = <<>>
    /\ heap = <<>>
    /\ extracted_metadata = 0
    /\ documents = <<>>
    /\ index_result = NoResult
    /\ calls = <<>>
    /\ store = <<>>

\* ------------------------------------------------- main.py: upload_pdf
\* What the handler knows of a request when it starts: nothing of the
\* request before is left.
FreshRequest(ct, fname) ==
    /\ content_type' = ct
    /\ file_name' = fname
    /\ n_images' = 0
    /\ pages_data' = <<>>
    /\ page_data_list' = <<>>
    /\ heap' = <<>>
    /\ extracted_metadata' = 0
    /\ documents' = <<>>
    /\ index_result' = NoResult
    /\ calls' = <<>>

\* Line 82: a content type other than application/pdf is answered with 400.
UploadReject(ct, fname) ==
    /\ pc = "idle"
    /\ lifespan = "serving"
    /\ uploads < MaxUploads
    /\ ~ContentTypeAccepted(ct)
    /\ uploads' = uploads + 1
    /\ upload_status' = 400
    /\ FreshRequest(ct, fname)
    /\ UNCHANGED <<chat_vars, pc, store>>

\* Lines 85-92 and index_pdf up to line 145: the call of get_text_from_pdf.
UploadBegin(ct, fname) ==
    /\ pc = "idle"
    /\ lifespan = "serving"
    /\ uploads < MaxUploads
    /\ ContentTypeAccepted(ct)
    /\ uploads' = uploads + 1
    /\ upload_status' = 0
    /\ FreshRequest(ct, fname)
    /\ pc' = "rasterize"
    /\ UNCHANGED <<chat_vars, store>>

\* get_text_from_pdf lines 77-82: convert_from_bytes raises (ok = FALSE) and
\* the function returns [], or it yields n page images.  With no image the
\* loop body never runs and the completeness check follows at once.
Rasterize(ok, n) ==
    /\ pc = "rasterize"
    /\ calls' = Append(calls, ExternalCall("rasterize", 0,
                                            IF ok THEN "ok" ELSE "error"))
    /\ IF ~ok
       THEN /\ page_data_list' = <<>>
            /\ pc' = "after_ocr"
            /\ UNCHANGED n_images
       ELSE /\ n_images' = n
            /\ IF n = 0
               THEN /\ page_data_list' = CompletenessCheck(pages_data, n)
                    /\ pc' = "after_ocr"
               ELSE /\ pc' = "ocr"
                    /\ UNCHANGED page_data_list
    /\ UNCHANGED <<chat_vars, uploads, upload_status, content_type, file_name, pages_data,
                   heap, extracted_metadata, documents, index_result, store>>

\* The number of pages the OCR loop has sent so far.
OcrSent == Cardinality({k \in 1..Len(calls) : calls[k].call = "ocr"})

\* The entries of the log for one collaborator.
CallsTo(name) == {c \in {calls[k] : k \in 1..Len(calls)} : c.call = name}

\* get_text_from_pdf lines 85-100: one iteration of the loop, and after the
\* last iteration the completeness check of lines 107-113.
OcrPage(outcome) ==
    /\ pc = "ocr"
    /\ LET page_num == OcrSent + 1
           text == _call_typhoon_api(outcome)
           collected == IF Truthy(text)
                        THEN Append(pages_data, PageRecord(page_num, text))
                        ELSE pages_data
       IN  /\ calls' = Append(calls, ExternalCall("ocr", page_num,
                                                 OcrResultClass(text)))
           /\ pages_data' = collected
           /\ IF OcrLoopEnds(page_num, n_images, text)
              THEN /\ page_data_list' = CompletenessCheck(collected, n_images)
                   /\ pc' = "after_ocr"
              ELSE /\ pc' = "ocr"
                   /\ UNCHANGED page_data_list
    /\ UNCHANGED <<chat_vars, uploads, upload_status, content_type, file_name, n_images,
                   heap, extracted_metadata, documents, index_result, store>>

\* index_pdf lines 147-149: no page records, return (False, None).
IndexRejectEmpty ==
    /\ pc = "after_ocr"
    /\ NoPages(page_data_list)
    /\ index_result' = ReturnResult(FALSE, NoneMeta)
    /\ pc' = "finished"
    /\ UNCHANGED <<chat_vars, uploads, upload_status, content_type, file_name, n_images,
                   pages_data, page_data_list, heap, extracted_metadata,
                   documents, calls, store>>

\* index_pdf lines 153-161: the metadata of the document, from the first
\* page record's text.  An exception of the extractor is not caught here,
\* nor would be the IndexError of page_data_list[0] on an empty list.
IndexExtractMetadata(llm) ==
    /\ pc = "after_ocr"
    /\ ~NoPages(page_data_list)
    /\ IF page_data_list = <<>>
       THEN /\ index_result' = RaiseResult
            /\ pc' = "finished"
            /\ UNCHANGED <<heap, extracted_metadata, calls>>
       ELSE LET first_page_text == FirstPageText(page_data_list)
            IN  IF ~Truthy(first_page_text)
                THEN /\ heap' = <<DefaultMetadata>>
                     /\ extracted_metadata' = 1
                     /\ pc' = "build"
                     /\ UNCHANGED <<calls, index_result>>
                ELSE LET r == _extract_metadata_from_text(first_page_text, llm)
                     IN  /\ calls' = Append(calls,
                                LlmCall(Truncate(first_page_text), LlmClass(llm)))
                         /\ IF r.raised
                            THEN /\ index_result' = RaiseResult
                                 /\ pc' = "finished"
                                 /\ UNCHANGED <<heap, extracted_metadata>>
                            ELSE /\ heap' = <<r.value>>
                                 /\ extracted_metadata' = 1
                                 /\ pc' = "build"
                                 /\ UNCHANGED index_result
    /\ UNCHANGED <<chat_vars, uploads, upload_status, content_type, file_name,
                   n_images, pages_data, page_data_list, documents, store>>

\* index_pdf lines 168-184: one iteration of the loop over the page records.
\* Document(text=...) is a validated model: a text that is no string raises,
\* after the metadata of the page has been merged, and nothing catches it.
IndexBuildDocument ==
    /\ pc = "build"
    /\ LET page_data == page_data_list[Len(documents) + 1]
           m == MergeMetadata(heap, extracted_metadata, file_name,
                              page_data.page_number)
           doc == [text |-> page_data.text, metadata |-> m.ref]
       IN  /\ heap' = m.heap
           /\ IF IsStr(page_data.text)
              THEN /\ documents' = Append(documents, doc)
                   /\ pc' = IF Len(documents) + 1 = Len(page_data_list)
                            THEN "write" ELSE "build"
                   /\ UNCHANGED index_result
              ELSE /\ index_result' = RaiseResult
                   /\ pc' = "finished"
                   /\ UNCHANGED documents
    /\ UNCHANGED <<chat_vars, uploads, upload_status, content_type, file_name,
                   n_images, pages_data, page_data_list, extracted_metadata,
                   calls, store>>

\* index_pdf lines 188-203: connect and write the batch.  A write that
\* raises may have stored any prefix of the batch (no rollback).
IndexWrite(outcome, stored) ==
    /\ pc = "write"
    /\ stored \in 0..Len(documents)
    /\ index_result' = WriteResult(outcome, heap[extracted_metadata])
    /\ CASE outcome = "connect_error" ->
              /\ calls' = Append(calls, ExternalCall("store_connect", 0, "error"))
              /\ UNCHANGED store
         [] outcome = "write_error" ->
              /\ calls' = calls \o <<ExternalCall("store_connect", 0, "ok"),
                                     ExternalCall("store_write", 0, "error")>>
              /\ store' = store \o SubSeq(Units(heap, documents), 1, stored)
         [] outcome = "ok" ->
              /\ calls' = calls \o <<ExternalCall("store_connect", 0, "ok"),
                                     ExternalCall("store_write", 0, "ok")>>
              /\ store' = store \o Units(heap, documents)
    /\ pc' = "finished"
    /\ UNCHANGED <<chat_vars, uploads, upload_status, content_type, file_name, n_images,
                   pages_data, page_data_list, heap, extracted_metadata,
                   documents>>

\* upload_pdf lines 94-107: 200 on success; the HTTPException of line 103
\* and any exception of index_pdf end in the 500 of line 107.
UploadFinish ==
    /\ pc = "finished"
    /\ upload_status' = IF index_result.kind = "return" /\ index_result.success
                        THEN 200 ELSE 500
    /\ pc' = "idle"
    /\ UNCHANGED <<chat_vars, uploads, index_vars, store>>

\* --------------------------------------------------- main.py: lifespan
\* Lines 42-51: startup builds the query engine.
Startup ==
    /\ lifespan = "startup"
    /\ pc = "idle"
    /\ query_engine' = "engine"
    /\ lifespan' = "serving"
    /\ UNCHANGED <<chat_histories, chat_resp, turn_log, nchat, query_vars, pc,
                   uploads, upload_status, index_vars, store>>

\* Lines 55-57: shutdown drops the engine and clears the histories.
Shutdown ==
    /\ lifespan = "serving"
    /\ pc = "idle"
    /\ query_engine' = None
    /\ chat_histories' = [x \in {} |-> <<>>]
    /\ turn_log' = <<>>
    /\ lifespan' = "shutdown"
    /\ UNCHANGED <<chat_resp, nchat, query_vars, pc, uploads, upload_status,
                   index_vars, store>>

\* ---------------------------------------------- main.py: query_endpoint
\* Lines 117-118: no query engine, 503.
QueryUnavailable ==
    /\ pc = "idle"
    /\ nquery < MaxQueries
    /\ ~EngineAvailable(query_engine)
    /\ nquery' = nquery + 1
    /\ query_resp' = QueryResponse(503, <<>>, {})
    /\ UNCHANGED <<lifespan, query_engine, chat_histories, chat_resp, turn_log,
                   nchat, pc, uploads, upload_status, index_vars, store>>

\* Lines 120-140: retrieve, rerank, synthesize, build the response.  fail
\* names the place where the try block raises: in query_engine.query
\* ("query"), while the response is built ("response"), or nowhere.
Query(hit_scores, fail) ==
    /\ pc = "idle"
    /\ nquery < MaxQueries
    /\ EngineAvailable(query_engine)
    /\ nquery' = nquery + 1
    /\ query_resp' =
          IF fail = "none"
          THEN QueryResponse(200,
                   SourceNodes(node_postprocessors(Retrieve(Nodes(hit_scores)))),
                   {"query_engine"})
          ELSE QueryResponse(500, <<>>, {"query_engine"})
    /\ UNCHANGED <<lifespan, query_engine, chat_histories, chat_resp, turn_log,
                   nchat, pc, uploads, upload_status, index_vars, store>>

\* ---------------------------------------------- main.py: chat_endpoint
\* Lines 150-151: no query engine, 503.
ChatUnavailable(sid) ==
    /\ pc = "idle"
    /\ nchat < MaxChats
    /\ ~EngineAvailable(query_engine)
    /\ nchat' = nchat + 1
    /\ chat_resp' = ChatResponse(sid, 503, FALSE, <<>>, {})
    /\ UNCHANGED <<lifespan, query_engine, chat_histories, turn_log,
                   query_vars, pc, uploads, upload_status, index_vars, store>>

\* Lines 153-197.  The handler has no await, so it runs as one step of the
\* event loop.  fail names the place where the try block raises: before
\* the write of line 179 ("memory", "engine", "condense", "query"), after it
\* ("response", lines 182-193), or nowhere ("none").
Chat(sid, question, answer, fail) ==
    /\ pc = "idle"
    /\ nchat < MaxChats
    /\ EngineAvailable(query_engine)
    /\ nchat' = nchat + 1
    /\ LET session_history == Lookup(chat_histories, sid)
           status == IF fail = "none" THEN 200 ELSE 500
       IN  /\ chat_resp' = ChatResponse(sid, status, TRUE, session_history,
                                        ChatExternal(fail))
           /\ IF fail \in {"none", "response"}
              THEN /\ chat_histories' =
                        StoreHistory(chat_histories, sid,
                            MemoryAfterTurn(session_history, question, answer))
                   /\ turn_log' = Append(turn_log,
                        [sid |-> sid, question |-> question,
                         answer |-> answer, status |-> status])
              ELSE UNCHANGED <<chat_histories, turn_log>>
    /\ UNCHANGED <<lifespan, query_engine, query_vars, pc, uploads,
                   upload_status, index_vars, store>>

\* ------------------------------------------------------- specification
\* The ingestion path: the lifespan and the upload endpoint.
NextIngest ==
    \/ Startup
    \/ Shutdown
    \/ \E ct \in ContentTypes, fname \in FileNames : UploadReject(ct, fname)
    \/ \E ct \in ContentTypes, fname \in FileNames : UploadBegin(ct, fname)
    \/ \E ok \in BOOLEAN, n \in 0..MaxPages : Rasterize(ok, n)
    \/ \E outcome \in OcrOutcomes : OcrPage(outcome)
    \/ IndexRejectEmpty
    \/ \E llm \in LlmOutcomes : IndexExtractMetadata(llm)
    \/ IndexBuildDocument
    \/ \E outcome \in StoreOutcomes, stored \in 0..MaxPages :
          IndexWrite(outcome, stored)
    \/ UploadFinish

\* The conversation path: the lifespan and the chat endpoint.
NextChat ==
    \/ Startup
    \/ Shutdown
    \/ \E sid \in SessionIds : ChatUnavailable(sid)
    \/ \E sid \in SessionIds, q \in Questions, a \in Answers,
          fail \in ChatFailures : Chat(sid, q, a, fail)

\* The stateless query path: the lifespan and the query endpoint.
NextQuery ==
    \/ Startup
    \/ Shutdown
    \/ QueryUnavailable
    \/ \E hit_scores \in HitLists, fail \in QueryFailures :
          Query(hit_scores, fail)

\* Both endpoints that need the query engine.
NextServe == NextChat \/ NextQuery

Next == NextIngest \/ NextServe

\* The whole service.
Spec == Init /\ [][Next]_vars

\* The upload endpoint and the chat endpoint share no state (the chat
\* handler never touches the store or the upload's locals, and index_pdf
\* never touches the session histories), so each is also checked alone.
SpecIngest == Init /\ [][NextIngest]_vars

SpecChat == Init /\ [][NextChat]_vars

SpecQuery == Init /\ [][NextQuery]_vars

SpecServe == Init /\ [][NextServe]_vars

\* ==================================================== checked properties

\* ------------------------------------------------------------- ingestion
SomePageFailed == \E c \in CallsTo("ocr") : c.result \in {"empty", "none"}

AllPagesSucceeded ==
    /\ \E c \in CallsTo("rasterize") : c.result = "ok"
    /\ OcrSent = n_images
    /\ ~SomePageFailed

OcrReturned == pc \notin {"rasterize", "ocr"} /\ calls # <<>>

IndexReturned == pc \in {"finished", "idle"} /\ calls # <<>>

\* C1: when at least one page's OCR call of a document returned no text,
\* get_text_from_pdf returns the empty list, index_pdf returns
\* (False, None), no Document is built and the vector store is never
\* connected to or written during that call.
C1_Completeness ==
    SomePageFailed =>
        /\ OcrReturned => page_data_list = <<>>
        /\ IndexReturned => index_result = ReturnResult(FALSE, NoneMeta)
        /\ pc \notin {"build", "write"}
        /\ documents = <<>>
        /\ CallsTo("store_connect") = {} /\ CallsTo("store_write") = {}

\* C1 witness: a document of which one page failed and another succeeded
\* has been rejected.
C1_Witness ==
    /\ pc = "finished"
    /\ SomePageFailed
    /\ pages_data # <<>>
    /\ index_result = ReturnResult(FALSE, NoneMeta)

\* C2 (as claimed): whenever the LLM call of the metadata extractor raised,
\* gave something that is no JSON, or gave JSON that is no mapping, the
\* extractor returned the default record and nothing was raised.
C2_FallbackTotal ==
    \A c \in CallsTo("llm") :
        c.result \in {"raises", "not_json", "not_dict"} =>
            /\ index_result.kind # "raise"
            /\ extracted_metadata # 0
            /\ heap[extracted_metadata] = DefaultMetadata

\* C3 (as claimed): index_pdf never raises, and what it returns is
\* (True, metadata) or (False, None).
C3_ExplicitOutcome ==
    /\ index_result.kind # "raise"
    /\ IndexReturned =>
          /\ index_result.kind = "return"
          /\ index_result.success <=> index_result.metadata # NoneMeta

\* C4: index_pdf returned (True, metadata) only if the batch write was
\* invoked and completed, and whenever connecting or writing raised it
\* returned (False, None).
C4_SuccessAfterWrite ==
    /\ (index_result.kind = "return" /\ index_result.success) =>
          /\ \E c \in CallsTo("store_write") : c.result = "ok"
          /\ index_result.metadata = heap[extracted_metadata]
    /\ (\E c \in CallsTo("store_connect") \cup CallsTo("store_write") :
            c.result = "error") =>
          index_result = ReturnResult(FALSE, NoneMeta)

\* C4 witness: a write that completed and was reported as success.
C4_Witness ==
    /\ pc = "finished"
    /\ index_result.kind = "return" /\ index_result.success
    /\ store # <<>>

\* C5: when the OCR calls of all N pages succeeded, get_text_from_pdf
\* returns N page records with page numbers 1..N in that order.
C5_PageOrder ==
    (OcrReturned /\ AllPagesSucceeded) =>
        /\ Len(page_data_list) = n_images
        /\ \A k \in 1..Len(page_data_list) : page_data_list[k].page_number = k

\* C5 witness: a document of several pages, all of them read.
C5_Witness ==
    /\ pc = "after_ocr"
    /\ AllPagesSucceeded
    /\ Len(page_data_list) >= 2

\* C6: every Document built, and every unit the store holds, carries the
\* caller's file name and the page number of its page record, whatever
\* keys the extracted metadata has.
C6_ProvenanceNotShadowed ==
    /\ \A k \in 1..Len(documents) :
          /\ heap[documents[k].metadata].file_name = file_name
          /\ heap[documents[k].metadata].page_number
                = page_data_list[k].page_number
    /\ \A k \in 1..Len(store) :
          /\ store[k].metadata.file_name \in FileNames
          /\ store[k].metadata.page_number \in 1..MaxPages
    /\ pc = "finished" /\ (\E c \in CallsTo("store_write") : c.result = "ok") =>
          SubSeq(store, Len(store) - Len(documents) + 1, Len(store))
              = [k \in 1..Len(documents) |->
                    [text |-> page_data_list[k].text,
                     metadata |-> DictUpdate(heap[documents[k].metadata],
                         PageFields(file_name, page_data_list[k].page_number))]]

\* C6 witness: the units of a two-page document whose extracted metadata
\* has keys file_name and page_number of its own have been written.
C6_Witness ==
    /\ pc = "finished"
    /\ extracted_metadata # 0
    /\ "file_name" \in DOMAIN heap[extracted_metadata]
    /\ "page_number" \in DOMAIN heap[extracted_metadata]
    /\ Len(documents) >= 2
    /\ Len(store) >= 2

\* C7: building the Document of a page leaves the extracted metadata and
\* the metadata of the Documents built before unchanged, and afterwards
\* all Documents agree with the extracted metadata on every key other than
\* file_name and page_number.
C7_DocMetadataIdentical ==
    [][pc = "build" =>
        /\ \A r \in 1..Len(heap) : heap'[r] = heap[r]
        /\ \A k \in 1..Len(documents') :
              DocLevel(heap'[documents'[k].metadata])
                  = DocLevel(heap'[extracted_metadata'])]_vars

\* C7 witness: two Documents of one document, each with its own mapping.
C7_Witness ==
    /\ pc = "write"
    /\ Len(documents) >= 2
    /\ documents[1].metadata # documents[2].metadata
    /\ heap[documents[1].metadata] # heap[documents[2].metadata]

\* ------------------------------------------------------------------ chat
\* The messages of the turns of one session, in the order they were written.
RECURSIVE TurnsOf(_, _)
TurnsOf(log, sid) ==
    IF log = <<>> THEN <<>>
    ELSE (IF Head(log).sid = sid
          THEN Turn(Head(log).question, Head(log).answer) ELSE <<>>)
         \o TurnsOf(Tail(log), sid)

\* A step that handled a chat request.
ChatStep == nchat' # nchat

\* The history entry of a session: whether it exists, and its messages.
Entry(histories, sid) == <<sid \in DOMAIN histories, Lookup(histories, sid)>>

\* C8: a chat request for one session id takes as its condensation context
\* the messages of that session's own turns and nothing else, and leaves
\* the entry of every other session id as it was.
C8_SessionIsolation ==
    [][ChatStep =>
        /\ chat_resp'.status # 503 =>
              chat_resp'.context = TurnsOf(turn_log, chat_resp'.sid)
        /\ \A other \in SessionIds \ {chat_resp'.sid} :
              Entry(chat_histories', other) = Entry(chat_histories, other)]_vars

\* C8 witness: two sessions with different histories, the last request
\* having read a non-empty history.
C8_Witness ==
    /\ DOMAIN chat_histories = SessionIds
    /\ chat_histories["A"] # chat_histories["B"]
    /\ chat_resp.status = 200
    /\ chat_resp.context # <<>>

\* Every turn of session sid in the log is in context, question then answer.
HasTurns(context, log, sid) ==
    \A k \in 1..Len(log) :
        log[k].sid = sid =>
            \E j \in 1..Len(context) - 1 :
                SubSeq(context, j, j + 1) = Turn(log[k].question, log[k].answer)

C10_ErrorKeepsHistory ==
    [][(ChatStep /\ chat_resp'.status \in {500, 503}) =>
            chat_histories' = chat_histories]_vars

QueryStep == nquery' # nquery

\* C12: while the query engine is None, a query request and a chat request
\* are answered with 503, call no collaborator, and neither read nor change
\* the session-history store.
C12_ServiceUnavailable ==
    [][/\ (ChatStep /\ query_engine = None) =>
            /\ chat_resp'.status = 503
            /\ chat_resp'.external = {}
            /\ ~chat_resp'.read
            /\ chat_histories' = chat_histories
       /\ (QueryStep /\ query_engine = None) =>
            /\ query_resp'.status = 503
            /\ query_resp'.external = {}
            /\ chat_histories' = chat_histories]_vars

\* C12 witness: after shutdown, a chat request and a query request have
\* both been rejected, and before it a chat request was served.
C12_Witness ==
    /\ lifespan = "shutdown"
    /\ chat_resp.status = 503
    /\ query_resp.status = 503
    /\ nchat >= 2

\* C14: the source nodes of a query response are at most TopN, and their
\* scores do not increase along the list.
C14_TopNBound ==
    LET source_nodes == query_resp.source_nodes
    IN  /\ Len(source_nodes) <= TopN
        /\ \A i, j \in 1..Len(source_nodes) :
              i < j => source_nodes[i].score >= source_nodes[j].score

\* C14 witness: a response of TopN nodes out of more candidates, which the
\* reranker has put in another order than the retriever.
C14_Witness ==
    /\ query_resp.status = 200
    /\ Len(query_resp.source_nodes) = TopN
    /\ query_resp.source_nodes[1].id > TopN
    /\ query_resp.source_nodes[1].score > query_resp.source_nodes[TopN].score

\* The session has a turn in the log.
HasCompletedTurn(log, sid) == \E k \in 1..Len(log) : log[k].sid = sid

RECURSIVE SuccessfulTurnsOf(_, _)
SuccessfulTurnsOf(log, sid) ==
    IF log = <<>> THEN <<>>
    ELSE (IF Head(log).sid = sid /\ Head(log).status = 200
          THEN Turn(Head(log).question, Head(log).answer) ELSE <<>>)
         \o SuccessfulTurnsOf(Tail(log), sid)

\* C18 (as claimed): the stored history of a session is the turns of its
\* successful chat calls, in commit order: k turns after k successful calls.
C18_ExactlyKTurns ==
    \A sid \in SessionIds :
        Lookup(chat_histories, sid) = SuccessfulTurnsOf(turn_log, sid)

\* ---------------------------------------------- ingestion: order of steps
RasterizeFailed == \E c \in CallsTo("rasterize") : c.result = "error"

RasterizeOk == \E c \in CallsTo("rasterize") : c.result = "ok"

NoExternalCall ==
    /\ CallsTo("ocr") = {}
    /\ CallsTo("llm") = {}
    /\ CallsTo("store_connect") = {}
    /\ CallsTo("store_write") = {}

\* C13: an upload whose content type is not application/pdf is answered
\* with 400, and one whose bytes the rasterizer cannot parse ends in
\* (False, None) and 500, in both cases with no OCR call, no LLM call and
\* no vector-store call made for the request.
C13_InvalidInputRejected ==
    /\ (uploads > 0 /\ content_type # "application/pdf") =>
          /\ pc = "idle"
          /\ upload_status = 400
          /\ calls = <<>>
          /\ index_result = NoResult
    /\ RasterizeFailed =>
          /\ NoExternalCall
          /\ pc \in {"after_ocr", "finished", "idle"}
          /\ IndexReturned => index_result = ReturnResult(FALSE, NoneMeta)
          /\ pc = "idle" => upload_status = 500

\* C13 witness: an upload of unparseable bytes has been answered with 500.
C13_Witness ==
    /\ pc = "idle"
    /\ RasterizeFailed
    /\ upload_status = 500
    /\ content_type = "application/pdf"

\* C15 (as claimed): whatever the OCR endpoint did, the adapter handed back
\* the text of a well-formed response or the empty string, so that only
\* string texts are collected as page records.
C15_AdapterReturnsTextOrEmpty ==
    /\ \A c \in CallsTo("ocr") : c.result \in {"text", "empty"}
    /\ \A k \in 1..Len(pages_data) : pages_data[k].text \in Texts

\* The positions of the LLM calls and of the store calls in the log.
LlmIdx == {k \in 1..Len(calls) : calls[k].call = "llm"}

StoreIdx ==
    {k \in 1..Len(calls) : calls[k].call \in {"store_connect", "store_write"}}

\* C16: in a run of index_pdf the metadata LLM is called at most once, after
\* every page of the document has been sent to OCR and has given text, on
\* (the first 4000 characters of) the first page record's text; the store
\* is connected to and written only after the metadata is determined; and
\* metadata determined without an LLM call is the fallback record for an
\* empty first text.
C16_StepOrder ==
    /\ Cardinality(LlmIdx) <= 1
    /\ \A k \in LlmIdx :
          /\ n_images >= 1 /\ OcrSent = n_images /\ ~SomePageFailed
          /\ \A j \in 1..Len(calls) :
                calls[j].call \in {"rasterize", "ocr"} => j < k
          /\ calls[k].input = Truncate(page_data_list[1].text)
    /\ \A k \in StoreIdx :
          /\ extracted_metadata # 0
          /\ \A j \in LlmIdx : j < k
    /\ (extracted_metadata # 0 /\ LlmIdx = {}) =>
          /\ ~Truthy(page_data_list[1].text)
          /\ heap[extracted_metadata] = DefaultMetadata

\* C16 witness: a document of two pages with different texts has been
\* written after its metadata came from the LLM.
C16_Witness ==
    /\ pc = "finished"
    /\ Len(page_data_list) >= 2
    /\ page_data_list[1].text # page_data_list[2].text
    /\ \E k \in LlmIdx : calls[k].result = "dict"
    /\ \E c \in CallsTo("store_write") : c.result = "ok"

\* The OCR calls of the running upload, in the order they were made.
OcrSeq == SelectSeq(calls, LAMBDA c : c.call = "ocr")

\* C19: the adapter is called once per page in page order 1..N, a page
\* without text is neither retried nor ends the loop, and the completeness
\* check is made only when all N calls have returned.
C19_OncePerPageInOrder ==
    /\ \A k \in 1..Len(OcrSeq) : OcrSeq[k].page = k
    /\ Len(OcrSeq) <= n_images
    /\ (OcrReturned /\ RasterizeOk) => Len(OcrSeq) = n_images
    /\ pc = "ocr" => (Len(OcrSeq) < n_images /\ page_data_list = <<>>)
    /\ Len(pages_data) =
          Cardinality({k \in 1..Len(OcrSeq) :
                          OcrSeq[k].result \notin {"empty", "none"}})

\* C19 witness: the first page gave no text and the pages after it were
\* sent all the same.
C19_Witness ==
    /\ pc = "after_ocr"
    /\ n_images >= 2
    /\ Len(OcrSeq) = n_images
    /\ OcrSeq[1].result = "empty"
    /\ OcrSeq[2].result = "text"

ZeroPages == RasterizeOk /\ n_images = 0

\* C20: a document that rasterizes to zero pages is rejected:
\* get_text_from_pdf returns the empty list, index_pdf returns
\* (False, None), and neither OCR, the LLM nor the store is called.
C20_ZeroPagesRejected ==
    ZeroPages =>
        /\ page_data_list = <<>>
        /\ NoExternalCall
        /\ pc \in {"after_ocr", "finished", "idle"}
        /\ IndexReturned => index_result = ReturnResult(FALSE, NoneMeta)
        /\ pc = "idle" => upload_status = 500

\* C20 witness: index_pdf has returned (False, None) for zero pages.
C20_Witness ==
    /\ ZeroPages
    /\ pc = "finished"
    /\ index_result = ReturnResult(FALSE, NoneMeta)
====
